---- MODULE Spec2Model ----
(***************************************************************************)
(* Model of the graph container (graph.h: DiGraph<T>, Graph<T>) and of the *)
(* Euler trail finder (euler.cpp: find_path, extend_path) for T = int.     *)
(*                                                                         *)
(* A graph object is its adjacency map `adj`: a function whose domain is   *)
(* the set of vertices, each vertex mapped to a function from its          *)
(* out-neighbours to the edge weight (std::map<T, std::map<T, size_t>>).   *)
(***************************************************************************)
EXTENDS Integers, Sequences, FiniteSets, TLC

\* ------------------------------------------------------------------ bounds
\* Vertex labels used by the Euler trail driver: 0..MaxVertex
MaxVertex == 4
\* Largest number of undirected edges the driver builds
MaxEdges == 4
\* Longest trail followed before the walk is cut off
MaxTrail == 7
\* Vertex labels used when exercising the container: 0..MaxOpVertex
MaxOpVertex == 1
\* Edge weights used when exercising the container: 0..MaxWeight
MaxWeight == 2
\* Number of container operations in one run
MaxOps == 3

Vertex == 0..MaxVertex
OpVertex == 0..MaxOpVertex
Weight == 0..MaxWeight

VARIABLES
    kind,     \* dynamic type of the graph object: "DiGraph" or "Graph"
    adj,      \* the graph object (the caller's graph g of find_path)
    last,     \* the container operation executed last, with its arguments
    pre,      \* the graph object as it was before that operation
    ret,      \* outcome of the last query call (NoRet after a mutator)
    nops,     \* number of container operations executed
    pc,       \* "main", "extend_path", "returned", "terminated"
    g_copy,   \* find_path's working copy
    p,        \* the path under construction / returned
    count_odd,\* local of find_path
    first_odd \* local of find_path

vars == <<kind, adj, last, pre, ret, nops, pc, g_copy, p, count_odd, first_odd>>

\* --------------------------------------------------------- std::map model
EmptyMap == [x \in {} |-> 0]

\* m.erase(k)
MapErase(m, k) == [x \in (DOMAIN m) \ {k} |-> m[x]]

\* m[k] = w
MapPut(m, k, w) == [x \in (DOMAIN m) \cup {k} |-> IF x = k THEN w ELSE m[x]]

\* adj[v] : operator[] inserts a default (empty) inner map when v is absent
MapDefault(a, v) ==
    IF v \in DOMAIN a THEN a
    ELSE [x \in (DOMAIN a) \cup {v} |-> IF x = v THEN EmptyMap ELSE a[x]]

Min(S) == CHOOSE m \in S : \A x \in S : m <= x

\* iteration order of a std::map's keys: ascending
RECURSIVE SortedSeq(_)
SortedSeq(S) ==
    IF S = {} THEN <<>>
    ELSE LET m == Min(S) IN <<m>> \o SortedSeq(S \ {m})

\* ------------------------------------------------------------ DiGraph<T>
is_vertex(a, v) == v \in DOMAIN a

is_edge(a, v1, v2) == is_vertex(a, v1) /\ v2 \in DOMAIN a[v1]

weight(a, v1, v2) ==
    IF is_vertex(a, v1) /\ is_edge(a, v1, v2) THEN a[v1][v2] ELSE 0

add_vertex(a, v) == MapDefault(a, v)

\* { add_vertex(v2); adj[v1][v2] = w; }
DiGraph_update_edge(a, v1, v2, w) ==
    LET b == MapDefault(add_vertex(a, v2), v1)
    IN  [b EXCEPT ![v1] = MapPut(b[v1], v2, w)]

DiGraph_add_edge_overwrite(a, v1, v2, w) == DiGraph_update_edge(a, v1, v2, w)

\* { if (!is_edge(v1, v2)) update_edge(v1, v2, w); }
DiGraph_add_edge(a, v1, v2, w) ==
    IF ~is_edge(a, v1, v2) THEN DiGraph_update_edge(a, v1, v2, w) ELSE a

\* { adj[v1].erase(v2); }
DiGraph_remove_edge(a, v1, v2) ==
    LET b == MapDefault(a, v1)
    IN  [b EXCEPT ![v1] = MapErase(b[v1], v2)]

DiGraph_remove_outgoing_only(a, v) == MapErase(a, v)

\* for (auto& p : adj) p.second.erase(v);  adj.erase(v);
DiGraph_remove(a, v) ==
    MapErase([x \in DOMAIN a |-> MapErase(a[x], v)], v)

\* adj.at(v).size(); at() throws std::out_of_range when v is absent, which
\* the callers below model as a separate outcome
degree_out(a, v) == Cardinality(DOMAIN a[v])

neighbors(a, v) == IF is_vertex(a, v) THEN SortedSeq(DOMAIN a[v]) ELSE <<>>

vertices(a) == SortedSeq(DOMAIN a)

\* --------------------------------------------------------------- Graph<T>
Graph_add_edge(a, v1, v2, w) ==
    DiGraph_add_edge(DiGraph_add_edge(a, v1, v2, w), v2, v1, w)

degree(a, v) == degree_out(a, v)

Graph_remove_edge_oneway(a, v1, v2) == DiGraph_remove_edge(a, v1, v2)

Graph_remove_edge_reverse_only(a, v1, v2) == DiGraph_remove_edge(a, v2, v1)

Graph_remove_edge(a, v1, v2) ==
    DiGraph_remove_edge(DiGraph_remove_edge(a, v1, v2), v2, v1)

Graph_update_edge_oneway(a, v1, v2, w) == DiGraph_update_edge(a, v1, v2, w)

Graph_update_edge(a, v1, v2, w) ==
    DiGraph_update_edge(DiGraph_update_edge(a, v1, v2, w), v2, v1, w)

\* ------------------------------------------------------------- euler.cpp
\* find_path lines 92-100: the loop over g.vertices(); acc holds the locals
\* count_odd and first_odd (0 doubles as "none found yet")
RECURSIVE odd_scan(_, _, _)
odd_scan(a, vs, acc) ==
    IF vs = <<>> THEN acc
    ELSE LET v == Head(vs)
             nxt == IF degree(a, v) % 2 # 0
                    THEN [count_odd |-> acc.count_odd + 1,
                          first_odd |-> IF acc.first_odd = 0 THEN v
                                        ELSE acc.first_odd]
                    ELSE acc
         IN  odd_scan(a, Tail(vs), nxt)

path_exists_even(c) == c % 2 = 0

\* line 106: if (!count_odd || count_odd == 2)
path_exists(c) == c = 0 \/ c = 2

\* line 109: first_odd ? first_odd : g.vertices().front()
\* front() of an empty list is undefined: any label may come out
start_vertex(a, fo) ==
    IF fo # 0 THEN {fo}
    ELSE IF DOMAIN a # {} THEN {Head(vertices(a))}
    ELSE Vertex

\* extend_path lines 71-74: the loop over g.neighbors(p.back())
RECURSIVE next_scan(_, _, _)
next_scan(ns, front, v_next) ==
    IF ns = <<>> THEN v_next
    ELSE LET v == Head(ns)
         IN  next_scan(Tail(ns), front,
                       IF v_next = 0 /\ v # front THEN v ELSE v_next)

\* extend_path lines 71-78
select_next(a, path) ==
    LET s == next_scan(neighbors(a, path[Len(path)]), Head(path), 0)
    IN  IF s = 0 THEN Head(path) ELSE s

\* -------------------------------------------------- the const queries
\* std::map::at: the mapped value, or std::out_of_range when k is absent
map_at(m, k) ==
    IF k \in DOMAIN m THEN [threw |-> FALSE, val |-> m[k]]
    ELSE [threw |-> TRUE, val |-> 0]

is_edge_call_unguarded(a, v1, v2) ==
    LET r == map_at(a, v1)
    IN  [threw |-> r.threw,
         val |-> IF r.threw THEN FALSE ELSE v2 \in DOMAIN r.val]

\* a call of is_edge: is_vertex(v1) && adj.at(v1).find(v2) != adj.at(v1).end()
is_edge_call(a, v1, v2) ==
    IF ~is_vertex(a, v1) THEN [threw |-> FALSE, val |-> FALSE]
    ELSE LET r == map_at(a, v1)
         IN  [threw |-> r.threw,
              val |-> IF r.threw THEN FALSE ELSE v2 \in DOMAIN r.val]

\* a call of weight: is_vertex(v1) && is_edge(v1, v2) ? adj.at(v1).at(v2) : 0
weight_call(a, v1, v2) ==
    IF is_vertex(a, v1) /\ is_edge(a, v1, v2)
    THEN LET r == map_at(a, v1)
         IN  IF r.threw THEN r ELSE map_at(r.val, v2)
    ELSE [threw |-> FALSE, val |-> 0]

\* --------------------------------------------------------------- actions
NoRet == [threw |-> FALSE, val |-> "void"]

NoOp == [op |-> "none", v1 |-> 0, v2 |-> 0, w |-> 0]

Init ==
    /\ kind \in {"DiGraph", "Graph"}
    /\ adj = EmptyMap
    /\ last = NoOp
    /\ pre = EmptyMap
    /\ ret = NoRet
    /\ nops = 0
    /\ pc = "main"
    /\ g_copy = EmptyMap
    /\ p = <<>>
    /\ count_odd = 0
    /\ first_odd = 0

eulerVars == <<pc, g_copy, p, count_odd, first_odd>>

\* bookkeeping of one container call: what was called, on which graph
Record(name, v1, v2, w) ==
    /\ pre' = adj
    /\ last' = [op |-> name, v1 |-> v1, v2 |-> v2, w |-> w]
    /\ ret' = NoRet
    /\ nops' = nops + 1
    /\ UNCHANGED <<kind, eulerVars>>

AddEdge(v1, v2, w) ==
    /\ pc = "main"
    /\ nops < MaxOps
    /\ adj' = IF kind = "Graph" THEN Graph_add_edge(adj, v1, v2, w)
              ELSE DiGraph_add_edge(adj, v1, v2, w)
    /\ Record("add_edge", v1, v2, w)

UpdateEdge(v1, v2, w) ==
    /\ pc = "main"
    /\ nops < MaxOps
    /\ adj' = IF kind = "Graph" THEN Graph_update_edge(adj, v1, v2, w)
              ELSE DiGraph_update_edge(adj, v1, v2, w)
    /\ Record("update_edge", v1, v2, w)

RemoveEdge(v1, v2) ==
    /\ pc = "main"
    /\ nops < MaxOps
    /\ adj' = IF kind = "Graph" THEN Graph_remove_edge(adj, v1, v2)
              ELSE DiGraph_remove_edge(adj, v1, v2)
    /\ Record("remove_edge", v1, v2, 0)

AddVertex(v) ==
    /\ pc = "main"
    /\ nops < MaxOps
    /\ adj' = add_vertex(adj, v)
    /\ Record("add_vertex", v, v, 0)

Remove(v) ==
    /\ pc = "main"
    /\ nops < MaxOps
    /\ adj' = DiGraph_remove(adj, v)
    /\ Record("remove", v, v, 0)

\* a const query: the graph object is not written, the outcome is kept
QueryWeight(v1, v2) ==
    /\ pc = "main"
    /\ nops < MaxOps
    /\ adj' = adj
    /\ pre' = adj
    /\ last' = [op |-> "weight", v1 |-> v1, v2 |-> v2, w |-> 0]
    /\ ret' = weight_call(adj, v1, v2)
    /\ nops' = nops + 1
    /\ UNCHANGED <<kind, eulerVars>>

QueryIsEdge(v1, v2) ==
    /\ pc = "main"
    /\ nops < MaxOps
    /\ adj' = adj
    /\ pre' = adj
    /\ last' = [op |-> "is_edge", v1 |-> v1, v2 |-> v2, w |-> 0]
    /\ ret' = is_edge_call(adj, v1, v2)
    /\ nops' = nops + 1
    /\ UNCHANGED <<kind, eulerVars>>

Next ==
    \/ \E v1, v2 \in OpVertex, w \in Weight : AddEdge(v1, v2, w)
    \/ \E v1, v2 \in OpVertex, w \in Weight : UpdateEdge(v1, v2, w)
    \/ \E v1, v2 \in OpVertex : RemoveEdge(v1, v2)
    \/ \E v \in OpVertex : AddVertex(v)
    \/ \E v \in OpVertex : Remove(v)
    \/ \E v1, v2 \in OpVertex : QueryWeight(v1, v2)
    \/ \E v1, v2 \in OpVertex : QueryIsEdge(v1, v2)

Spec == Init /\ [][Next]_vars

\* ---------------------------------------------- the Euler trail driver
InitEuler == Init /\ kind = "Graph"

\* undirected edges of a graph, a self-loop being the singleton {v}
Edges(a) == UNION {{{x, y} : y \in DOMAIN a[x]} : x \in DOMAIN a}

\* main lines 16-27: g.add_edge(a, b) with the default weight
MainAddEdge(v1, v2) ==
    /\ pc = "main"
    /\ Cardinality(Edges(adj)) < MaxEdges
    /\ adj' = Graph_add_edge(adj, v1, v2, 1)
    /\ UNCHANGED <<kind, last, pre, ret, nops, eulerVars>>

MainAddVertex(v) ==
    /\ pc = "main"
    /\ adj' = add_vertex(adj, v)
    /\ UNCHANGED <<kind, last, pre, ret, nops, eulerVars>>

\* find_path lines 90-113, up to the call of extend_path
FindPath ==
    /\ pc = "main"
    /\ LET s == odd_scan(adj, vertices(adj), [count_odd |-> 0, first_odd |-> 0])
       IN  /\ count_odd' = s.count_odd
           /\ first_odd' = s.first_odd
           /\ IF path_exists(s.count_odd)
              THEN /\ \E v \in start_vertex(adj, s.first_odd) : p' = <<v>>
                   /\ g_copy' = adj
                   /\ pc' = "extend_path"
              ELSE /\ p' = <<>>
                   /\ pc' = "returned"
                   /\ UNCHANGED g_copy
    /\ UNCHANGED <<kind, adj, last, pre, ret, nops>>

ExtendPathOnCaller ==
    /\ pc = "extend_path"
    /\ LET back == p[Len(p)] IN
       IF ~is_vertex(g_copy, back)
       THEN /\ pc' = "terminated"
            /\ UNCHANGED <<g_copy, p, adj>>
       ELSE IF degree(g_copy, back) = 0
       THEN /\ pc' = "returned"
            /\ UNCHANGED <<g_copy, p, adj>>
       ELSE /\ Len(p) < MaxTrail
            /\ LET v_next == select_next(g_copy, p) IN
               /\ g_copy' = Graph_remove_edge(g_copy, back, v_next)
               /\ adj' = Graph_remove_edge(g_copy, back, v_next)
               /\ p' = Append(p, v_next)
            /\ pc' = "extend_path"
    /\ UNCHANGED <<kind, last, pre, ret, nops, count_odd, first_odd>>

\* one invocation of extend_path on (g_copy, p); the recursive call is the
\* last statement, so the returns unwind without further effect
ExtendPath ==
    /\ pc = "extend_path"
    /\ LET back == p[Len(p)] IN
       IF ~is_vertex(g_copy, back)
       THEN \* adj.at(v) throws std::out_of_range, nobody catches it
            /\ pc' = "terminated"
            /\ UNCHANGED <<g_copy, p>>
       ELSE IF degree(g_copy, back) = 0
       THEN /\ pc' = "returned"
            /\ UNCHANGED <<g_copy, p>>
       ELSE /\ Len(p) < MaxTrail
            /\ LET v_next == select_next(g_copy, p) IN
               /\ g_copy' = Graph_remove_edge(g_copy, back, v_next)
               /\ p' = Append(p, v_next)
            /\ pc' = "extend_path"
    /\ UNCHANGED <<kind, adj, last, pre, ret, nops, count_odd, first_odd>>

NextEuler ==
    \/ \E v1, v2 \in Vertex : MainAddEdge(v1, v2)
    \/ \E v \in Vertex : MainAddVertex(v)
    \/ FindPath
    \/ ExtendPath

SpecEuler == InitEuler /\ [][NextEuler]_vars

\* ------------------------------------------------- vocabulary of the claims
\* vertices whose number of adjacency entries is odd
OddVertices(a) == {v \in DOMAIN a : Cardinality(DOMAIN a[v]) % 2 = 1}

NoSelfLoops(a) == \A v \in DOMAIN a : v \notin DOMAIN a[v]

NoVertexZero(a) == 0 \notin DOMAIN a

RECURSIVE Reach(_, _)
Reach(a, S) ==
    LET T == S \cup UNION {DOMAIN a[v] : v \in S}
    IN  IF T = S THEN S ELSE Reach(a, T)

\* all edges lie in one connected component
EdgesConnected(a) ==
    LET busy == {v \in DOMAIN a : DOMAIN a[v] # {}}
    IN  busy = {} \/ busy \subseteq Reach(a, {Min(busy)})

TrailEdge(path, i) == {path[i], path[i + 1]}

\* the consecutive pairs of path are exactly the edges of a, each once
CoversEveryEdgeOnce(path, a) ==
    /\ Len(path) = Cardinality(Edges(a)) + 1
    /\ {TrailEdge(path, i) : i \in 1..(Len(path) - 1)} = Edges(a)
    /\ \A i, j \in 1..(Len(path) - 1) :
          i # j => TrailEdge(path, i) # TrailEdge(path, j)

Eulerian(a) == Cardinality(OddVertices(a)) \in {0, 2}

\* ------------------------------------------------------------------ claims

\* C1: on a graph without self-loops and without vertex 0, whose edges are
\* connected and which has 0 or 2 odd-degree vertices, the trail find_path
\* returns has (edge count + 1) vertices and its consecutive pairs are
\* exactly the edges of the graph, each once.
C1_TrailCoversEveryEdge ==
    (/\ pc = "returned"
     /\ NoSelfLoops(adj) /\ NoVertexZero(adj)
     /\ EdgesConnected(adj) /\ Eulerian(adj))
    => CoversEveryEdgeOnce(p, adj)

\* C2: an undirected Graph is symmetric after any sequence of container
\* calls: is_edge(a,b) = is_edge(b,a) and weight(a,b) = weight(b,a).
C2_Symmetry ==
    kind = "Graph" =>
        \A a, b \in OpVertex :
            /\ is_edge(adj, a, b) = is_edge(adj, b, a)
            /\ weight(adj, a, b) = weight(adj, b, a)

C2_Witness ==
    /\ kind = "Graph"
    /\ last.op = "update_edge"
    /\ last.v1 # last.v2
    /\ is_edge(pre, last.v1, last.v2)
    /\ weight(pre, last.v2, last.v1) = 1
    /\ last.w = 2
    /\ weight(adj, last.v2, last.v1) = 2

\* C3: find_path returns a non-empty trail iff the graph has 0 or 2
\* odd-degree vertices and all its edges lie in one connected component.
C3_TrailIffEulerian ==
    pc = "returned" =>
        ((p # <<>>) <=> (Eulerian(adj) /\ EdgesConnected(adj)))

\* C4: when the number of odd-degree vertices is neither 0 nor 2, find_path
\* returns the empty sequence without taking a copy or walking.
C4_NoTrailWithoutWalk ==
    (pc # "main" /\ ~Eulerian(adj)) =>
        (pc = "returned" /\ p = <<>> /\ g_copy = EmptyMap)

C4_Witness ==
    /\ pc = "returned"
    /\ Cardinality(OddVertices(adj)) = 4
    /\ NoSelfLoops(adj)
    /\ p = <<>>

\* C5: remove_edge(v1, v2) on an absent edge leaves the graph as it was,
\* for DiGraph and for Graph, also when v1 or v2 is not a vertex.
C5_RemoveAbsentEdgeNoOp ==
    (last.op = "remove_edge" /\ ~is_edge(pre, last.v1, last.v2)) => adj = pre

\* C6: no step of find_path (the call, the walk, the return) changes the
\* caller's graph.
C6_CallerGraphUnchanged == [][pc' # "main" => adj' = adj]_vars

C6_Witness ==
    /\ pc = "returned"
    /\ Len(p) >= 4
    /\ Edges(g_copy) = {}
    /\ Cardinality(Edges(adj)) = Len(p) - 1

\* C7: after remove(v), v is no vertex, no edge has v as source or target,
\* every other vertex and every edge not incident to v is as before with
\* the same weight; if v was no vertex the graph is unchanged.
C7_Remove ==
    last.op = "remove" =>
        LET v == last.v1 IN
        /\ ~is_vertex(adj, v)
        /\ \A a, b \in OpVertex : is_edge(adj, a, b) => (a # v /\ b # v)
        /\ \A x \in OpVertex \ {v} : is_vertex(adj, x) = is_vertex(pre, x)
        /\ \A a, b \in OpVertex \ {v} :
              /\ is_edge(adj, a, b) = is_edge(pre, a, b)
              /\ weight(adj, a, b) = weight(pre, a, b)
        /\ (~is_vertex(pre, v) => adj = pre)

C7_Witness ==
    /\ last.op = "remove"
    /\ is_vertex(pre, last.v1)
    /\ \E a \in OpVertex \ {last.v1} : is_edge(pre, a, last.v1)
    /\ \E a, b \in OpVertex \ {last.v1} :
          /\ is_edge(pre, a, b) /\ is_edge(adj, a, b)
          /\ weight(pre, a, b) = 2 /\ weight(adj, a, b) = 2

\* C8: add_edge(v1, v2, w) creates an absent edge with weight w and both
\* endpoints; on an existing edge it changes nothing; for Graph in both
\* directions.
C8_AddEdge ==
    last.op = "add_edge" =>
        LET v1 == last.v1
            v2 == last.v2
            Created(a, b) ==
                IF is_edge(pre, a, b) THEN adj = pre
                ELSE /\ is_edge(adj, a, b)
                     /\ weight(adj, a, b) = last.w
                     /\ is_vertex(adj, a) /\ is_vertex(adj, b)
        IN  /\ Created(v1, v2)
            /\ (kind = "Graph" => Created(v2, v1))

C8_Witness ==
    /\ last.op = "add_edge"
    /\ kind = "Graph"
    /\ last.v1 # last.v2
    /\ is_edge(pre, last.v1, last.v2)
    /\ weight(pre, last.v1, last.v2) # last.w
    /\ weight(adj, last.v2, last.v1) = weight(pre, last.v2, last.v1)

\* C9: the returned trail starts at the smallest vertex when no vertex has
\* odd degree, and at the smallest odd-degree vertex when two have, for any
\* labelling.
C9_StartVertex ==
    (pc = "returned" /\ p # <<>>) =>
        /\ (Cardinality(OddVertices(adj)) = 0 => Head(p) = Min(DOMAIN adj))
        /\ (Cardinality(OddVertices(adj)) = 2 => Head(p) = Min(OddVertices(adj)))

\* C10: without self-loops and without vertex 0, the returned trail ends
\* where it starts when no vertex has odd degree, and starts at one
\* odd-degree vertex and ends at the other when two have.
C10_Endpoints ==
    (pc = "returned" /\ NoSelfLoops(adj) /\ NoVertexZero(adj)) =>
        /\ (Cardinality(OddVertices(adj)) = 0 =>
               p # <<>> /\ p[Len(p)] = Head(p))
        /\ (Cardinality(OddVertices(adj)) = 2 =>
               /\ p # <<>>
               /\ Head(p) \in OddVertices(adj)
               /\ p[Len(p)] \in OddVertices(adj)
               /\ p[Len(p)] # Head(p))

C10_Witness ==
    /\ pc = "returned"
    /\ NoSelfLoops(adj) /\ NoVertexZero(adj)
    /\ Cardinality(OddVertices(adj)) = 2
    /\ Len(p) = 5
    /\ p[Len(p)] \in OddVertices(adj) \ {Head(p)}


\* C11: after any sequence of container calls with any weight argument,
\* every existing edge has weight >= 1, so weight(v1,v2) = 0 exactly when
\* is_edge(v1,v2) is false.
C11_PositiveWeights ==
    \A a, b \in OpVertex :
        /\ (is_edge(adj, a, b) => weight(adj, a, b) >= 1)
        /\ (weight(adj, a, b) = 0 <=> ~is_edge(adj, a, b))


\* C12: the queries weight(v1,v2) and is_edge(v1,v2) never throw and never
\* change the graph; when v1 or v2 is no vertex or the edge is absent,
\* weight returns 0 and is_edge returns false, and no vertex is created.
C12_QueriesTotalAndPure ==
    last.op \in {"weight", "is_edge"} =>
        LET v1 == last.v1
            v2 == last.v2
            absent == \/ v1 \notin DOMAIN pre
                      \/ v2 \notin DOMAIN pre
                      \/ v2 \notin DOMAIN pre[v1]
        IN  /\ ~ret.threw
            /\ adj = pre
            /\ DOMAIN adj = DOMAIN pre
            /\ (absent /\ last.op = "weight" => ret.val = 0)
            /\ (absent /\ last.op = "is_edge" => ret.val = FALSE)

C12_Witness ==
    /\ last.op = "is_edge"
    /\ last.v1 \notin DOMAIN pre
    /\ last.v2 \in DOMAIN pre
    /\ \E a, b \in OpVertex : is_edge(pre, a, b) /\ weight(pre, a, b) = 2
    /\ ~ret.threw /\ ret.val = FALSE
    /\ adj = pre


\* C13: on a graph with zero edges (no vertices, or isolated vertices only)
\* find_path returns the empty sequence.
C13_NoEdgesNoTrail ==
    (pc \in {"returned", "terminated"} /\ Edges(adj) = {}) =>
        (pc = "returned" /\ p = <<>>)

\* C14: for any vertex labels, every step of the walk removes exactly one
\* undirected edge from the working copy, so the number of steps never
\* exceeds the number of edges of the original graph.
C14_StepsBoundedByEdges ==
    (pc \in {"extend_path", "returned"} /\ p # <<>>) =>
        /\ (Len(p) - 1) + Cardinality(Edges(g_copy)) = Cardinality(Edges(adj))
        /\ Len(p) - 1 <= Cardinality(Edges(adj))

TrailEdges(path) == {TrailEdge(path, i) : i \in 1..(Len(path) - 1)}

\* C15: without self-loops and without vertex 0, at every step of the walk
\* the edges of the trail so far and the edges left in the working copy
\* are disjoint and together are the original edges, no edge being
\* traversed twice.
C15_TrailAndRemainderPartition ==
    (/\ pc \in {"extend_path", "returned"} /\ p # <<>>
     /\ NoSelfLoops(adj) /\ NoVertexZero(adj)) =>
        /\ TrailEdges(p) \cap Edges(g_copy) = {}
        /\ TrailEdges(p) \cup Edges(g_copy) = Edges(adj)
        /\ \A i, j \in 1..(Len(p) - 1) :
              i # j => TrailEdge(p, i) # TrailEdge(p, j)

C15_Witness ==
    /\ pc = "extend_path"
    /\ NoSelfLoops(adj) /\ NoVertexZero(adj)
    /\ Len(p) = 3
    /\ Cardinality(Edges(g_copy)) = 2
    /\ Cardinality(Edges(adj)) = 4

\* C16: for any vertex labels, a step from u appends the smallest
\* remaining neighbour of u other than the trail's first vertex, and the
\* first vertex only when it is u's sole remaining neighbour.
C16_NextVertexRule ==
    [][(pc = "extend_path" /\ pc' = "extend_path") =>
         LET u == p[Len(p)]
             rem == DOMAIN g_copy[u]
             cand == rem \ {Head(p)}
         IN  /\ p' = Append(p, IF cand # {} THEN Min(cand) ELSE Head(p))
             /\ (cand = {} => rem = {Head(p)})]_vars

====
